---- MODULE Spec2Model ----
(***************************************************************************)
(* Model of microservices/security-checker/check_headers.py: the function  *)
(* check_security_headers(url) and the __main__ driver that audits three   *)
(* service URLs and writes /app/security-headers-report.json.              *)
(*                                                                         *)
(* Python values are modelled as follows.                                  *)
(*   str            a TLA+ string (Len, SubSeq and \o act on characters)   *)
(*   None           PyNone                                                 *)
(*   a dict         a sequence of <<key, value>> pairs in insertion order  *)
(*   a dict object  a cell of heap; PyRef(id) is a reference to it         *)
(***************************************************************************)
EXTENDS Integers, Sequences, FiniteSets, TLC

VARIABLES
    pc,           \* position of the driver / of the call in progress
    i,            \* index into urls of the current iteration of the for loop
    all_results,  \* the dict all_results: <<url, reference>> pairs
    results,      \* the value returned by the last check_security_headers call
    heap,         \* the dict objects built by `results = {}`, by object id
    reply,        \* what requests.get delivers / delivered for the current call
    stdout,       \* the lines printed so far
    file,         \* content of /app/security-headers-report.json
    gets,         \* url -> number of requests.get calls issued for it
    outcome,      \* url -> "pending", "failed" or the HTTP status received
    writes        \* number of times the report file was opened for writing

vars == <<pc, i, all_results, results, heap, reply, stdout, file, gets, outcome, writes>>

-----------------------------------------------------------------------------
(* Bounds of the model *)

\* The audited services of the driver specification answer with the first k
\* rows of the header table, k \in 0..MaxPresent.
MaxPresent == 2

-----------------------------------------------------------------------------
(* Configuration compiled into the program *)

urls ==
    << "http://api-gateway:8090",
       "http://database-service:8115",
       "http://monitoring-service:8116" >>

security_headers ==
    << <<"X-Content-Type-Options", "nosniff">>,
       <<"X-Frame-Options", "DENY">>,
       <<"X-XSS-Protection", "1; mode=block">>,
       <<"Strict-Transport-Security", "max-age=31536000">>,
       <<"Content-Security-Policy", "default-src 'self'">>,
       <<"Referrer-Policy", "strict-origin-when-cross-origin">> >>

HeaderNames == {security_headers[k][1] : k \in DOMAIN security_headers}
UrlSet == {urls[k] : k \in DOMAIN urls}

-----------------------------------------------------------------------------
(* Python strings *)

UpperAlpha == "ABCDEFGHIJKLMNOPQRSTUVWXYZ"
LowerAlpha == "abcdefghijklmnopqrstuvwxyz"

LowerChar(c) ==
    IF \E k \in 1..Len(UpperAlpha) : SubSeq(UpperAlpha, k, k) = c
    THEN LET k == CHOOSE n \in 1..Len(UpperAlpha) : SubSeq(UpperAlpha, n, n) = c
         IN  SubSeq(LowerAlpha, k, k)
    ELSE c

RECURSIVE Lower(_)
Lower(s) ==
    IF Len(s) = 0 THEN ""
    ELSE LowerChar(SubSeq(s, 1, 1)) \o Lower(SubSeq(s, 2, Len(s)))

\* needle in hay
Contains(needle, hay) ==
    \E k \in 0..(Len(hay) - Len(needle)) :
        SubSeq(hay, k + 1, k + Len(needle)) = needle

-----------------------------------------------------------------------------
(* Python values and dicts *)

PyNone == [t |-> "None"]
PyStr(s) == [t |-> "str", v |-> s]
PyRef(id) == [t |-> "ref", id |-> id]

DictKeys(d) == {d[k][1] : k \in DOMAIN d}
DictHas(d, key) == \E k \in DOMAIN d : d[k][1] = key
DictGet(d, key) == d[CHOOSE k \in DOMAIN d : d[k][1] = key][2]
DictSet(d, key, val) ==
    IF DictHas(d, key)
    THEN [k \in DOMAIN d |-> IF d[k][1] = key THEN <<key, val>> ELSE d[k]]
    ELSE Append(d, <<key, val>>)

\* Variant: the `if results:` test left out, every return value is stored
TruthyNotChecked(x) == TRUE

\* Variant: a report counts only if it found some header
TruthyAnyPresent(x) ==
    /\ x.t = "ref"
    /\ \E k \in DOMAIN heap[x.id] : heap[x.id][k][2].present

\* bool(x) for the values `results` can hold
Truthy(x) ==
    /\ x.t = "ref"
    /\ Len(heap[x.id]) > 0

-----------------------------------------------------------------------------
(* requests.get: what the network can deliver *)

NoReply == [kind |-> "none"]
ErrorReply(msg) == [kind |-> "error", msg |-> msg]
Response(status, headers) == [kind |-> "response", status |-> status, headers |-> headers]

\* Exceptions requests.get raises
Errors ==
    { ErrorReply("Connection refused"),
      ErrorReply("Read timed out. (read timeout=10)") }

StatusCodes == {200, 404, 500}

\* Header values a service may send for row k of the table, by kind:
\* 1 the expected value, 2 the expected value inside a longer one, 3 a
\* different policy, 4 the expected value in lower case, 5 the expected value
\* cut short.  Kind 0: the header is not sent.
Insecure ==
    << "sniff", "SAMEORIGIN", "0", "max-age=0", "default-src *", "no-referrer" >>

ValueKinds == 1..5

ValueTable ==
    [k \in DOMAIN security_headers |->
        LET e == security_headers[k][2]
        IN  << e,
               "v, " \o e \o "; ext",
               Insecure[k],
               Lower(e),
               SubSeq(e, 1, Len(e) - 1) >>]

ValueOfKind(k, kind) == ValueTable[k][kind]

\* The header block of a response as received: Content-Type, then the audited
\* headers the service sends (kinds[k] # 0), their names spelled as in the
\* table or in lower case.
LowerNames == [k \in DOMAIN security_headers |-> Lower(security_headers[k][1])]

WireName(k, lc) ==
    IF lc THEN LowerNames[k] ELSE security_headers[k][1]

Wire(kinds, lc) ==
    LET sent == SelectSeq([k \in DOMAIN security_headers |-> k],
                          LAMBDA k : kinds[k] # 0)
    IN  << <<"Content-Type", "application/json">> >>
        \o [n \in DOMAIN sent |->
              <<WireName(sent[n], lc), ValueOfKind(sent[n], kinds[sent[n]])>>]

\* Every header block over the value kinds
AllHeaderBlocks ==
    { Wire(kinds, lc) :
        kinds \in [DOMAIN security_headers -> {0} \cup ValueKinds],
        lc \in BOOLEAN }

\* The header blocks of the driver specification: the first n rows of the
\* table sent, n \in 0..MaxPresent, all of one kind.
SampleHeaderBlocks ==
    { Wire([k \in DOMAIN security_headers |-> IF k <= n THEN kind ELSE 0], lc) :
        n \in 0..MaxPresent, kind \in {1, 3}, lc \in BOOLEAN }

-----------------------------------------------------------------------------
(* response.headers: requests' CaseInsensitiveDict *)

\* key.lower(), tabulated over the header names that occur
FieldNames ==
    {"Content-Type"} \cup HeaderNames \cup {Lower(n) : n \in HeaderNames}

LowerKey == [n \in FieldNames |-> Lower(n)]

\* header in headers
HeadersContain(headers, name) ==
    \E k \in DOMAIN headers : LowerKey[headers[k][1]] = LowerKey[name]

\* headers[header]
HeadersGet(headers, name) ==
    headers[CHOOSE k \in DOMAIN headers : LowerKey[headers[k][1]] = LowerKey[name]][2]

-----------------------------------------------------------------------------
(* check_security_headers, lines 20-35 *)

\* Variant: `expected_value == headers[header]` in place of `in`
HeaderCheckExact(headers, k) ==
    LET header == security_headers[k][1]
        expected_value == security_headers[k][2]
    IN  IF HeadersContain(headers, header)
        THEN [present |-> TRUE,
              value |-> PyStr(HeadersGet(headers, header)),
              secure |-> expected_value = HeadersGet(headers, header)]
        ELSE [present |-> FALSE, value |-> PyNone, secure |-> FALSE]

\* Variant: an absent header recorded with the empty string as its value
HeaderCheckAbsentEmpty(headers, k) ==
    LET header == security_headers[k][1]
        expected_value == security_headers[k][2]
    IN  IF HeadersContain(headers, header)
        THEN [present |-> TRUE,
              value |-> PyStr(HeadersGet(headers, header)),
              secure |-> Contains(expected_value, HeadersGet(headers, header))]
        ELSE [present |-> FALSE, value |-> PyStr(""), secure |-> FALSE]

\* The record stored for row k of security_headers (the body of the for loop)
HeaderCheck(headers, k) ==
    LET header == security_headers[k][1]
        expected_value == security_headers[k][2]
    IN  IF HeadersContain(headers, header)
        THEN [present |-> TRUE,
              value |-> PyStr(HeadersGet(headers, header)),
              secure |-> Contains(expected_value, HeadersGet(headers, header))]
        ELSE [present |-> FALSE, value |-> PyNone, secure |-> FALSE]

\* Variant: the else branch missing, absent headers get no entry
BuildResultsPresentOnly(headers) ==
    LET sent == SelectSeq([k \in DOMAIN security_headers |-> k],
                          LAMBDA k : HeadersContain(headers, security_headers[k][1]))
    IN  [n \in DOMAIN sent |->
            <<security_headers[sent[n]][1], HeaderCheck(headers, sent[n])>>]

\* The dict the function returns for a response.  `results` starts empty and
\* the for loop assigns results[header] once per row of the table; the rows'
\* names are distinct, so each assignment appends one entry, in table order.
BuildResults(headers) ==
    [k \in DOMAIN security_headers |->
        <<security_headers[k][1], HeaderCheck(headers, k)>>]

\* Variant: one dict shared by all calls (results created once, outside the function)
NewDictShared(h) == 1

\* The object id of the dict created by `results = {}`
NewDict(h) == Len(h) + 1

\* heap with the dict object id set to obj
HeapStore(h, id, obj) ==
    IF id \in DOMAIN h THEN [h EXCEPT ![id] = obj] ELSE Append(h, obj)

-----------------------------------------------------------------------------
(* json.dump and its inverse json.load *)

JNull == [j |-> "null"]
JBool(b) == [j |-> IF b THEN "true" ELSE "false"]
JStr(s) == [j |-> "string", s |-> s]
JObj(members) == [j |-> "object", members |-> members]

\* JSON of a 'value' field: a str or None
JsonOfValue(v) == IF v.t = "str" THEN JStr(v.v) ELSE JNull

\* JSON of one header's record
JsonOfCheck(r) ==
    JObj(<< <<"present", JBool(r.present)>>,
            <<"value", JsonOfValue(r.value)>>,
            <<"secure", JBool(r.secure)>> >>)

\* JSON of the dict returned for one URL
JsonOfReport(d) ==
    JObj([k \in DOMAIN d |-> <<d[k][1], JsonOfCheck(d[k][2])>>])

\* JSON of a value of all_results: a reference to a dict, or None
JsonOfEntry(x, h) == IF x.t = "ref" THEN JsonOfReport(h[x.id]) ELSE JNull

\* json.dump(all_results, f, indent=2)
JsonDump(d, h) ==
    JObj([k \in DOMAIN d |-> <<d[k][1], JsonOfEntry(d[k][2], h)>>])

\* json.load, for documents of the shape JsonDump writes
LoadBool(j) == j.j = "true"
LoadValue(j) == IF j.j = "string" THEN PyStr(j.s) ELSE PyNone
LoadCheck(j) ==
    [present |-> LoadBool(DictGet(j.members, "present")),
     value |-> LoadValue(DictGet(j.members, "value")),
     secure |-> LoadBool(DictGet(j.members, "secure"))]
LoadReport(j) ==
    [k \in DOMAIN j.members |-> <<j.members[k][1], LoadCheck(j.members[k][2])>>]
JsonLoad(j) ==
    [k \in DOMAIN j.members |-> <<j.members[k][1], LoadReport(j.members[k][2])>>]

\* States of the report file
FileAbsent == [state |-> "absent"]
FileStale == [state |-> "stale"]
FileTruncated == [state |-> "truncated"]
FileWritten(doc) == [state |-> "written", doc |-> doc]

-----------------------------------------------------------------------------
(* The lines printed *)

ProgressLine(url) == "Checking security headers for " \o url
ErrorLine(url, msg) == "Error checking " \o url \o ": " \o msg
CompletedLine == "Security headers check completed"

-----------------------------------------------------------------------------
(* The driver and the calls it makes *)

Pending == [result |-> "pending", status |-> 0]
Failed == [result |-> "failed", status |-> 0]
Ok(status) == [result |-> "ok", status |-> status]

Init ==
    /\ pc = "loop"
    /\ i = 1
    /\ all_results = <<>>
    /\ results = PyNone
    /\ heap = <<>>
    /\ reply = NoReply
    /\ stdout = <<>>
    /\ file \in {FileAbsent, FileStale}
    /\ gets = [u \in UrlSet |-> 0]
    /\ outcome = [u \in UrlSet |-> Pending]
    /\ writes = 0

\* line 49: print(f"Checking security headers for {url}")
PrintProgress ==
    /\ pc = "loop"
    /\ i <= Len(urls)
    /\ stdout' = Append(stdout, ProgressLine(urls[i]))
    /\ pc' = "call"
    /\ UNCHANGED <<i, all_results, results, heap, reply, file, gets, outcome, writes>>

\* Variant: lines 49 and 50 swapped, the request goes out before the progress line
IssueGetUnannounced(r) ==
    /\ pc = "loop"
    /\ i <= Len(urls)
    /\ gets' = [gets EXCEPT ![urls[i]] = @ + 1]
    /\ reply' = r
    /\ pc' = "await"
    /\ UNCHANGED <<i, all_results, results, heap, stdout, file, outcome, writes>>

\* lines 50, 8: requests.get(url, timeout=10) is issued; r is in flight
IssueGet(r) ==
    /\ pc = "call"
    /\ gets' = [gets EXCEPT ![urls[i]] = @ + 1]
    /\ reply' = r
    /\ pc' = "await"
    /\ UNCHANGED <<i, all_results, results, heap, stdout, file, outcome, writes>>

\* lines 8-35: the request returns a response; the report is built and returned
GetReturns ==
    /\ pc = "await"
    /\ reply.kind = "response"
    /\ LET id == NewDict(heap)
       IN  /\ heap' = HeapStore(heap, id, BuildResults(reply.headers))
           /\ results' = PyRef(id)
    /\ outcome' = [outcome EXCEPT ![urls[i]] = Ok(reply.status)]
    /\ pc' = "ret"
    /\ UNCHANGED <<i, all_results, reply, stdout, file, gets, writes>>

\* Variant: the except clause prints and tries the request again
GetRaisesRetry ==
    /\ pc = "await"
    /\ reply.kind = "error"
    /\ stdout' = Append(stdout, ErrorLine(urls[i], reply.msg))
    /\ pc' = "call"
    /\ UNCHANGED <<i, all_results, results, heap, reply, file, gets, outcome, writes>>

\* Variant: no try/except, the exception ends the run
GetRaisesPropagates ==
    /\ pc = "await"
    /\ reply.kind = "error"
    /\ outcome' = [outcome EXCEPT ![urls[i]] = Failed]
    /\ pc' = "crashed"
    /\ UNCHANGED <<i, all_results, results, heap, reply, stdout, file, gets, writes>>

\* lines 8, 36-38: the request raises; the error is printed and None returned
GetRaises ==
    /\ pc = "await"
    /\ reply.kind = "error"
    /\ stdout' = Append(stdout, ErrorLine(urls[i], reply.msg))
    /\ results' = PyNone
    /\ outcome' = [outcome EXCEPT ![urls[i]] = Failed]
    /\ pc' = "ret"
    /\ UNCHANGED <<i, all_results, heap, reply, file, gets, writes>>

\* lines 51-52, 48: if results: all_results[url] = results; next url
Accumulate ==
    /\ pc = "ret"
    /\ all_results' = IF Truthy(results)
                      THEN DictSet(all_results, urls[i], results)
                      ELSE all_results
    /\ i' = i + 1
    /\ reply' = NoReply
    /\ pc' = "loop"
    /\ UNCHANGED <<results, heap, stdout, file, gets, outcome, writes>>

\* Variant: the write can happen as soon as one URL has been processed
WriteReportEarly ==
    /\ pc = "loop"
    /\ i > 1
    /\ file' = FileWritten(JsonDump(all_results, heap))
    /\ writes' = writes + 1
    /\ pc' = "written"
    /\ UNCHANGED <<i, all_results, results, heap, reply, stdout, gets, outcome>>

\* lines 54-55: the file is opened for writing, the report dumped, the file closed
WriteReport ==
    /\ pc = "loop"
    /\ i > Len(urls)
    /\ file' = FileWritten(JsonDump(all_results, heap))
    /\ writes' = writes + 1
    /\ pc' = "written"
    /\ UNCHANGED <<i, all_results, results, heap, reply, stdout, gets, outcome>>

\* line 54: open() raises; the exception is not caught
OpenFails ==
    /\ pc = "loop"
    /\ i > Len(urls)
    /\ pc' = "crashed"
    /\ UNCHANGED <<i, all_results, results, heap, reply, stdout, file, gets, outcome, writes>>

\* lines 54-55: open() has truncated the file, the write raises; not caught
DumpFails ==
    /\ pc = "loop"
    /\ i > Len(urls)
    /\ file' = FileTruncated
    /\ writes' = writes + 1
    /\ pc' = "crashed"
    /\ UNCHANGED <<i, all_results, results, heap, reply, stdout, gets, outcome>>

\* line 57: print("Security headers check completed")
PrintCompleted ==
    /\ pc = "written"
    /\ stdout' = Append(stdout, CompletedLine)
    /\ pc' = "done"
    /\ UNCHANGED <<i, all_results, results, heap, reply, file, gets, outcome, writes>>

\* What the audited services deliver in the driver specification
SampleReplies ==
    Errors \cup {Response(s, h) : s \in StatusCodes, h \in SampleHeaderBlocks}

Next ==
    \/ PrintProgress
    \/ \E r \in SampleReplies : IssueGet(r)
    \/ GetReturns
    \/ GetRaises
    \/ Accumulate
    \/ WriteReport
    \/ OpenFails
    \/ DumpFails
    \/ PrintCompleted

Spec == Init /\ [][Next]_vars

\* The interpreter runs the script to its end: every enabled step is taken.
FairSpec == Spec /\ WF_vars(Next)

-----------------------------------------------------------------------------
(* One call of check_security_headers over every reply *)

AllReplies ==
    Errors \cup {Response(s, h) : s \in StatusCodes, h \in AllHeaderBlocks}

\* The first call of the run, its request in flight
InitCall ==
    /\ pc = "await"
    /\ i = 1
    /\ all_results = <<>>
    /\ results = PyNone
    /\ heap = <<>>
    /\ reply \in AllReplies
    /\ stdout = <<ProgressLine(urls[1])>>
    /\ file = FileAbsent
    /\ gets = [u \in UrlSet |-> IF u = urls[1] THEN 1 ELSE 0]
    /\ outcome = [u \in UrlSet |-> Pending]
    /\ writes = 0

NextCall ==
    \/ GetReturns
    \/ GetRaises

SpecCall == InitCall /\ [][NextCall]_vars

-----------------------------------------------------------------------------
(* Notions the properties are stated in *)

\* needle occurs in hay: hay = a \o needle \o b for some strings a, b
Occurs(needle, hay) ==
    \E m \in 0..Len(hay) : \E n \in m..Len(hay) : SubSeq(hay, m + 1, n) = needle

\* The values a header block holds for a field name (names compare without case)
Observed(headers, name) ==
    {headers[k][2] : k \in {n \in DOMAIN headers : LowerKey[headers[n][1]] = LowerKey[name]}}

\* The dict a value of all_results or results refers to (<<>> for None)
Target(x, h) == IF x.t = "ref" /\ x.id \in DOMAIN h THEN h[x.id] ELSE <<>>

\* The record of header name in the report just returned
Returned(name) == DictGet(Target(results, heap), name)

ReturnedAll ==
    /\ results.t = "ref"
    /\ results.id \in DOMAIN heap
    /\ \A name \in HeaderNames : DictHas(heap[results.id], name)

Started(u) == gets[u] > 0
Succeeded(u) == outcome[u].result = "ok"
FailedUrl(u) == outcome[u].result = "failed"
LoopOver == i > Len(urls)

-----------------------------------------------------------------------------
(* Properties of one call *)

\* C1: for each of the six headers and every response, the record's `secure`
\* is true if and only if `present` is true and the expected substring of the
\* table occurs within the observed header value; `secure` is never true for
\* a record with `present` false.
C1_SecureIffPresentAndExpected ==
    (pc = "ret" /\ reply.kind = "response") =>
        /\ ReturnedAll
        /\ \A k \in DOMAIN security_headers :
             LET name == security_headers[k][1]
                 expected == security_headers[k][2]
                 r == Returned(name)
             IN  /\ r.secure <=>
                       (r.present /\ \E v \in Observed(reply.headers, name) :
                                        Occurs(expected, v))
                 /\ ~r.present => ~r.secure

\* A response in which one header is sent with its expected value inside a
\* longer one (secure) and another with a near miss (present, not secure).
C1_Witness ==
    /\ pc = "ret"
    /\ reply.kind = "response"
    /\ ReturnedAll
    /\ Returned("Strict-Transport-Security") =
          [present |-> TRUE, value |-> PyStr("v, max-age=31536000; ext"), secure |-> TRUE]
    /\ Returned("X-Content-Type-Options") =
          [present |-> TRUE, value |-> PyStr("nosnif"), secure |-> FALSE]
    /\ ~Returned("Referrer-Policy").present

\* C6: `present` is true exactly when the header is in the response's header
\* set; when present `value` is the raw observed value (X-Frame-Options: DENY
\* gives {true, "DENY", true}, SAMEORIGIN gives {true, "SAMEORIGIN", false});
\* when absent the record is exactly {false, null, false}.
C6_PresentValueRecord ==
    (pc = "ret" /\ reply.kind = "response") =>
        /\ ReturnedAll
        /\ \A name \in HeaderNames :
             LET r == Returned(name)
                 obs == Observed(reply.headers, name)
             IN  /\ r.present <=> obs # {}
                 /\ r.present => r.value.t = "str" /\ obs = {r.value.v}
                 /\ ~r.present => r = [present |-> FALSE, value |-> PyNone, secure |-> FALSE]
        /\ Observed(reply.headers, "X-Frame-Options") = {"DENY"} =>
             Returned("X-Frame-Options") =
                [present |-> TRUE, value |-> PyStr("DENY"), secure |-> TRUE]
        /\ Observed(reply.headers, "X-Frame-Options") = {"SAMEORIGIN"} =>
             Returned("X-Frame-Options") =
                [present |-> TRUE, value |-> PyStr("SAMEORIGIN"), secure |-> FALSE]

\* A response with X-Frame-Options: SAMEORIGIN and no other audited header.
C6_Witness ==
    /\ pc = "ret"
    /\ reply.kind = "response"
    /\ ReturnedAll
    /\ Returned("X-Frame-Options") =
          [present |-> TRUE, value |-> PyStr("SAMEORIGIN"), secure |-> FALSE]
    /\ \A name \in HeaderNames \ {"X-Frame-Options"} :
          Returned(name) = [present |-> FALSE, value |-> PyNone, secure |-> FALSE]

-----------------------------------------------------------------------------
(* Properties of the run *)

\* The report on disk as json.load returns it (<<>> while none is written)
WrittenDoc == IF file.state = "written" THEN file.doc ELSE JObj(<<>>)
WrittenKeys == DictKeys(WrittenDoc.members)

ErrorLineOf(line, u) == \E e \in Errors : line = ErrorLine(u, e.msg)
Printed(line) == \E k \in DOMAIN stdout : stdout[k] = line

\* C2: a URL whose request failed is not a key of the report written to disk
\* (nor of all_results at any time): it is omitted, with no marker entry.
C2_FailedUrlOmitted ==
    \A u \in UrlSet :
        FailedUrl(u) =>
            /\ ~DictHas(all_results, u)
            /\ u \notin WrittenKeys

\* The report is written after the second URL failed and the others succeeded.
C2_Witness ==
    /\ file.state = "written"
    /\ FailedUrl(urls[2])
    /\ Succeeded(urls[1])
    /\ Succeeded(urls[3])
    /\ WrittenKeys = {urls[1], urls[3]}

\* C3: the keys of the written report are exactly the URLs whose request
\* succeeded, every value is a report keyed by exactly the six header names,
\* and the file parses back to the accumulated report.
C3_WrittenKeysExact ==
    file.state = "written" =>
        /\ WrittenKeys = {u \in UrlSet : Succeeded(u)}
        /\ Len(file.doc.members) = Cardinality(WrittenKeys)
        /\ \A k \in DOMAIN file.doc.members :
             LET v == file.doc.members[k][2]
             IN  /\ v.j = "object"
                 /\ DictKeys(v.members) = HeaderNames
                 /\ Len(v.members) = Cardinality(HeaderNames)
        /\ JsonLoad(file.doc) =
             [k \in DOMAIN all_results |->
                <<all_results[k][1], Target(all_results[k][2], heap)>>]

\* A written report with two entries, one of them for a response that sent
\* none of the six headers.
C3_Witness ==
    /\ file.state = "written"
    /\ Cardinality(WrittenKeys) = 2
    /\ FailedUrl(urls[1])
    /\ \E k \in DOMAIN all_results :
          \A n \in DOMAIN Target(all_results[k][2], heap) :
              ~Target(all_results[k][2], heap)[n][2].present

\* C4: check_security_headers never propagates an exception and never
\* retries: one GET per URL, whether it succeeds or fails, and a failed
\* request does not stop the later URLs from being checked once each.
C4_OneGetPerUrl ==
    /\ \A u \in UrlSet : gets[u] <= 1
    /\ \A k \in DOMAIN urls : k < i => gets[urls[k]] = 1
    /\ LoopOver => \A u \in UrlSet : gets[u] = 1 /\ outcome[u] # Pending
    /\ pc = "crashed" => LoopOver

\* The first request failed and the third URL was still requested once.
C4_Witness ==
    /\ FailedUrl(urls[1])
    /\ FailedUrl(urls[2])
    /\ gets[urls[3]] = 1
    /\ outcome[urls[3]] # Pending

RunCompleted ==
    /\ pc = "done"
    /\ file.state = "written"
    /\ Len(stdout) > 0
    /\ stdout[Len(stdout)] = CompletedLine

WriteFailed == pc = "crashed" /\ LoopOver

\* C5: whatever the outcomes of the three URL checks, unless the file write
\* fails the run reaches its end: the report is written and the completion
\* message printed.
C5_RunEnds == <>(RunCompleted \/ WriteFailed)

\* The run completed although all three requests failed.
C5_Witness ==
    /\ RunCompleted
    /\ \A u \in UrlSet : FailedUrl(u)

\* C7: the report file is written once, after every URL has been checked,
\* with the complete report replacing what the file held; the completion
\* message is printed only after that write, never after a failed write.
C7_WriteOnceAtEnd ==
    /\ writes <= 1
    /\ writes = 0 => file \in {FileAbsent, FileStale}
    /\ writes > 0 => LoopOver /\ \A u \in UrlSet : outcome[u] # Pending
    /\ pc \in {"written", "done"} =>
          /\ writes = 1
          /\ file = FileWritten(JsonDump(all_results, heap))
    /\ Printed(CompletedLine) => pc = "done" /\ file.state = "written"
    /\ pc = "crashed" => ~Printed(CompletedLine) /\ file.state # "written"

\* The completion message is printed after the write of a two-entry report.
C7_Witness ==
    /\ Printed(CompletedLine)
    /\ writes = 1
    /\ Len(all_results) = 2
    /\ file = FileWritten(JsonDump(all_results, heap))

\* C8: the URLs are processed one after the other in list order: a URL's
\* progress line is printed before its request is issued, a request is issued
\* only after the previous URL's request completed, and an error line for a
\* URL directly follows that URL's progress line.
C8_SequentialOrder ==
    /\ \A a, b \in DOMAIN urls : \A k, l \in DOMAIN stdout :
          (stdout[k] = ProgressLine(urls[a]) /\ stdout[l] = ProgressLine(urls[b]) /\ k <= l)
              => (a < b \/ (a = b /\ k = l))
    /\ \A u \in UrlSet :
          /\ Started(u) => Printed(ProgressLine(u))
          /\ FailedUrl(u) <=> \E k \in DOMAIN stdout : ErrorLineOf(stdout[k], u)
          /\ \A k \in DOMAIN stdout :
                ErrorLineOf(stdout[k], u) => k > 1 /\ stdout[k - 1] = ProgressLine(u)
    /\ \A a, b \in DOMAIN urls :
          (a < b /\ Printed(ProgressLine(urls[b]))) => outcome[urls[a]] # Pending
    /\ pc = "await" => outcome[urls[i]] = Pending /\ stdout[Len(stdout)] = ProgressLine(urls[i])

\* The third request is in flight after the first failed and the second succeeded.
C8_Witness ==
    /\ pc = "await"
    /\ i = 3
    /\ FailedUrl(urls[1])
    /\ Succeeded(urls[2])
    /\ Len(stdout) = 4

\* C9: each iteration builds its own new report: an entry of all_results is
\* never modified or removed by a later step, and an iteration whose request
\* failed leaves all_results and the reports it refers to unchanged.
C9_EntriesFrozen ==
    [][ /\ \A k \in DOMAIN all_results :
             /\ k \in DOMAIN all_results'
             /\ all_results'[k][1] = all_results[k][1]
             /\ Target(all_results'[k][2], heap') = Target(all_results[k][2], heap)
        /\ (pc = "await" /\ pc' = "ret" /\ results'.t = "ref") =>
             results'.id \notin DOMAIN heap
        /\ (pc = "ret" /\ FailedUrl(urls[i])) =>
             /\ all_results' = all_results
             /\ heap' = heap
      ]_vars

\* Two entries with different reports, a failed iteration between them.
C9_Witness ==
    /\ pc = "done"
    /\ FailedUrl(urls[2])
    /\ Len(all_results) = 2
    /\ Target(all_results[1][2], heap) # Target(all_results[2][2], heap)

\* C10: a URL counts as succeeded when its request completed without an
\* exception, whatever the status code and the headers returned: the
\* six-entry report passes `if results:` and the URL is added; the URLs
\* skipped are exactly those for which None was returned.
C10_AnyResponseCounts ==
    /\ pc = "ret" =>
          /\ reply.kind = "response" => ReturnedAll /\ Len(Target(results, heap)) = 6
          /\ reply.kind = "error" <=> results = PyNone
    /\ \A k \in DOMAIN urls :
          (k < i /\ gets[urls[k]] > 0) =>
              (DictHas(all_results, urls[k]) <=> outcome[urls[k]].result = "ok")
    /\ \A k \in DOMAIN urls :
          (k < i /\ outcome[urls[k]].result = "ok") =>
              Len(Target(DictGet(all_results, urls[k]), heap)) = 6

\* A 404 response without any of the six headers and a 500 response are both
\* in the written report.
C10_Witness ==
    /\ file.state = "written"
    /\ outcome[urls[1]] = Ok(404)
    /\ outcome[urls[2]] = Ok(500)
    /\ {urls[1], urls[2]} \subseteq WrittenKeys
    /\ \A n \in DOMAIN Target(DictGet(all_results, urls[1]), heap) :
          ~Target(DictGet(all_results, urls[1]), heap)[n][2].present

====
